---- MODULE Spec2Model ----
(***************************************************************************)
(* Dataset-Health-Monitoring: the check registry, the dataset registry,    *)
(* the four built-in checks and the evaluation / aggregation engine        *)
(* (src/dataset-health/src: registry.py, health.py, output.py, checks/).  *)
(*                                                                         *)
(* Python values are modelled as records tagged by `kind`.  Instants are   *)
(* integers counting hours; an epoch number n stands for the instant n     *)
(* (the code counts seconds and divides by 3600, the model counts hours).  *)
(* Names are strings; Python's string order on the names the model uses    *)
(* is given by NameOrder.                                                  *)
(***************************************************************************)
EXTENDS Integers, Sequences, FiniteSets, TLC

VARIABLES
    checks,           \* CheckRegistry._checks: CheckSpecs in dict (insertion) order
    datasets,         \* DatasetRegistry._datasets: Datasets in dict (insertion) order
    raised,           \* exception the latest call raised, "" when it returned
    pc,               \* position of the evaluate_all call: "idle" | "evaluating"
    call,             \* the latest call: its kind and arguments
    evaluation_time,  \* evaluate_all's local evaluation_time
    pending,          \* datasets the list comprehension has not yet evaluated
    dataset_reports,  \* DatasetHealth records built so far by the comprehension
    report,           \* HealthReport the latest call returned, None_ when it returned none
    invocations,      \* runner invocations the latest call made, in order
    previous,         \* the evaluate_all call before the latest, when it had the
                      \* same arguments and a fixed now; else None_
    clock,            \* the wall clock datetime.now(timezone.utc) reads
    arg,              \* input of a directly applied function (pure-function specs)
    ret               \* its outcome

vars == <<checks, datasets, raised, pc, call, evaluation_time, pending,
          dataset_reports, report, invocations, previous, clock, arg, ret>>

(***************************************************************************)
(* Bounds of the model.                                                    *)
(***************************************************************************)
MaxClock == 1       \* the wall clock runs over 0..MaxClock
MaxResults == 4     \* aggregate_status is applied to at most MaxResults results
MaxNum == 3         \* metadata numbers run over -1..MaxNum, instants over 0..MaxNum

(***************************************************************************)
(* Python values.                                                          *)
(***************************************************************************)
None_ == [kind |-> "None"]
Num(n) == [kind |-> "number", n |-> n]              \* an int or a finite float
NaN == [kind |-> "nan"]                             \* float('nan'), YAML .nan
Inf == [kind |-> "inf"]                             \* float('inf'), YAML .inf
NumText(n) == [kind |-> "numtext", n |-> n]         \* text float() parses: "12"
IsoText(t, tz) == [kind |-> "isotext", t |-> t, tz |-> tz]  \* ISO-8601 text
BadText == [kind |-> "text"]                        \* any other text: "abc"
Str_(s) == [kind |-> "str", s |-> s]                \* a list item that is text
ListV(items) == [kind |-> "list", items |-> items]  \* a list of Str_ and Num items
MapV == [kind |-> "dict"]                           \* a mapping
DateTime(t, aware) == [kind |-> "datetime", t |-> t, aware |-> aware]

Return(v) == [raise |-> "", value |-> v]
Raise(e) == [raise |-> e, value |-> None_]

\* class Status(str, Enum)
Status == {"GREEN", "YELLOW", "RED"}

CheckResult(name, status, message, details) ==
    [kind |-> "CheckResult", name |-> name, status |-> status,
     message |-> message, details |-> details]

\* isinstance(result, CheckResult)
IsCheckResult(v) == v.kind = "CheckResult"

MetadataKeys ==
    {"last_updated", "freshness_hours", "record_count", "expected_min_records",
     "bytes", "expected_min_bytes", "schema", "expected_schema"}

NoMetadata == [k \in MetadataKeys |-> None_]

\* @dataclass Dataset: description, location, owner and source default to ""
Dataset(name, metadata) ==
    [name |-> name, description |-> "", location |-> "", owner |-> "",
     metadata |-> metadata, source |-> ""]

\* Dataset.get(key): metadata.get(key, None)
Get(dataset, key) ==
    IF key \in DOMAIN dataset.metadata THEN dataset.metadata[key] ELSE None_

(***************************************************************************)
(* Python's order on the strings the model uses (sorted() on str).         *)
(***************************************************************************)
NameOrder ==
    <<"1", "a.yaml", "b.yml", "bad", "completeness", "dummy", "freshness",
      "good", "id", "sample", "schema", "ts", "volume">>

Rank(s) == CHOOSE i \in 1..Len(NameOrder) : NameOrder[i] = s

RECURSIVE Sorted(_)
\* sorted(S) for a set S of strings
Sorted(S) ==
    IF S = {} THEN <<>>
    ELSE LET m == CHOOSE x \in S : \A y \in S : Rank(x) <= Rank(y)
         IN  <<m>> \o Sorted(S \ {m})

IsAscending(names) ==
    \A i \in 1..(Len(names) - 1) : Rank(names[i]) <= Rank(names[i + 1])

IsStrictlyAscending(names) ==
    \A i \in 1..(Len(names) - 1) : Rank(names[i]) < Rank(names[i + 1])

SeqRange(s) == {s[i] : i \in 1..Len(s)}

(***************************************************************************)
(* Floating point: float(), comparison and the ratio test.                 *)
(***************************************************************************)
\* float(v): TypeError or ValueError when v is no number
PyFloat(v) ==
    CASE v.kind \in {"number", "nan", "inf"} -> Return(v)
      [] v.kind = "numtext" -> Return(Num(v.n))
      [] v.kind \in {"text", "isotext"} -> Raise("ValueError")
      [] OTHER -> Raise("TypeError")

\* a >= b on floats: every comparison with nan is False
FGe(a, b) ==
    CASE a.kind = "nan" \/ b.kind = "nan" -> FALSE
      [] a.kind = "inf" -> TRUE
      [] b.kind = "inf" -> FALSE
      [] OTHER -> a.n >= b.n

\* a <= b on floats
FLe(a, b) == FGe(b, a)

\* the ratio test made strict: a / b > 0.9
RatioGt09(a, b) ==
    CASE a.kind = "nan" \/ b.kind = "nan" -> FALSE
      [] a.kind = "inf" -> b.kind # "inf"
      [] b.kind = "inf" -> FALSE
      [] OTHER -> 10 * a.n > 9 * b.n

\* a / b >= 0.9 for b > 0, b nan or b inf.  On the model's small integers the
\* rounded quotient compares with the literal 0.9 as the exact one does.
RatioGe09(a, b) ==
    CASE a.kind = "nan" \/ b.kind = "nan" -> FALSE
      [] a.kind = "inf" -> b.kind # "inf"
      [] b.kind = "inf" -> FALSE
      [] OTHER -> 10 * a.n >= 9 * b.n

\* the 1.5 x SLA test made strict: a < b * 1.5
LtTimes15(a, b) ==
    CASE b.kind = "nan" -> FALSE
      [] b.kind = "inf" -> TRUE
      [] OTHER -> 2 * a.n < 3 * b.n

\* a <= b * 1.5 on floats, a finite
LeTimes15(a, b) ==
    CASE b.kind = "nan" -> FALSE
      [] b.kind = "inf" -> TRUE
      [] OTHER -> 2 * a.n <= 3 * b.n

(***************************************************************************)
(* registry.parse_datetime                                                 *)
(***************************************************************************)
TzOffset(tz) == IF tz = "+01:00" THEN 1 ELSE 0

\* text[:-1] + "+00:00" when the text ends with Z
ReplaceZ(v) == IF v.kind = "isotext" /\ v.tz = "Z" THEN IsoText(v.t, "+00:00") ELSE v

\* datetime.fromisoformat(text); text ending in Z is what Python < 3.11 rejects
FromIsoFormat(v) ==
    CASE v.kind = "isotext" /\ v.tz = "naive" -> Return(DateTime(v.t, FALSE))
      [] v.kind = "isotext" /\ v.tz \in {"+00:00", "+01:00"} ->
            Return(DateTime(v.t - TzOffset(v.tz), TRUE))
      [] OTHER -> Raise("ValueError")

\* value.replace(tzinfo=timezone.utc) on a naive datetime
ReplaceTzUtc(d) == DateTime(d.t, TRUE)

\* datetime.fromtimestamp(float(value), tz=timezone.utc)
FromTimestamp(v) ==
    CASE v.kind = "number" -> Return(DateTime(v.n, TRUE))
      [] v.kind = "nan" -> Raise("ValueError")
      [] OTHER -> Raise("OverflowError")

parse_datetime(value) ==
    CASE value.kind = "None" -> Return(None_)
      [] value.kind = "datetime" ->
            IF ~value.aware THEN Return(ReplaceTzUtc(value)) ELSE Return(value)
      [] value.kind \in {"number", "nan", "inf"} -> FromTimestamp(value)
      [] value.kind \in {"isotext", "numtext", "text"} ->
            LET parsed == FromIsoFormat(ReplaceZ(value))
            IN  IF parsed.raise = "ValueError" THEN Return(None_)
                ELSE IF ~parsed.value.aware THEN Return(ReplaceTzUtc(parsed.value))
                ELSE parsed
      [] OTHER -> Return(None_)

(***************************************************************************)
(* The four built-in checks (checks/*.py).  Each returns Return(result) or *)
(* Raise(exception).  `now` is a datetime or None_; `clk` is the wall      *)
(* clock, read only when `now` is falsy.                                   *)
(***************************************************************************)
\* checks/freshness.py
check_freshness(dataset, now, clk) ==
    LET now1 == IF now.kind = "None" THEN DateTime(clk, TRUE) ELSE now
        raw == Get(dataset, "last_updated")
        parsed == parse_datetime(raw)
        last_updated == parsed.value
        freshness_hours == Get(dataset, "freshness_hours")
        sla == PyFloat(freshness_hours)
        sla_hours == sla.value
    IN  IF parsed.raise # "" THEN parsed
        ELSE IF last_updated.kind = "None" \/ freshness_hours.kind = "None" THEN
            Return(CheckResult("freshness", "YELLOW",
                "Missing last_updated or freshness_hours metadata.",
                [last_updated |-> raw, freshness_hours |-> freshness_hours]))
        ELSE IF sla.raise \in {"TypeError", "ValueError"} THEN
            Return(CheckResult("freshness", "YELLOW",
                "Invalid freshness_hours value.",
                [freshness_hours |-> freshness_hours]))
        ELSE IF now1.aware # last_updated.aware THEN Raise("TypeError")
        ELSE LET age_hours == Num(now1.t - last_updated.t)
                 status == IF FLe(age_hours, sla_hours) THEN "GREEN"
                           ELSE IF LeTimes15(age_hours, sla_hours) THEN "YELLOW"
                           ELSE "RED"
             IN  Return(CheckResult("freshness", status, "Age (SLA).",
                     [last_updated |-> last_updated, age_hours |-> age_hours,
                      sla_hours |-> sla_hours]))

\* checks/completeness.py
check_completeness(dataset, now) ==
    LET record_count == Get(dataset, "record_count")
        expected_min == Get(dataset, "expected_min_records")
        rc == PyFloat(record_count)
        em == PyFloat(expected_min)
        record_count_value == rc.value
        expected_min_value == em.value
    IN  IF record_count.kind = "None" \/ expected_min.kind = "None" THEN
            Return(CheckResult("completeness", "YELLOW",
                "Missing record_count or expected_min_records metadata.",
                [record_count |-> record_count, expected_min_records |-> expected_min]))
        ELSE IF rc.raise \in {"TypeError", "ValueError"}
                \/ em.raise \in {"TypeError", "ValueError"} THEN
            Return(CheckResult("completeness", "YELLOW",
                "Invalid record_count or expected_min_records value.",
                [record_count |-> record_count, expected_min_records |-> expected_min]))
        ELSE IF FLe(expected_min_value, Num(0)) THEN
            Return(CheckResult("completeness", "YELLOW",
                "expected_min_records must be greater than 0.",
                [expected_min_records |-> expected_min_value]))
        ELSE IF FGe(record_count_value, expected_min_value) THEN
            Return(CheckResult("completeness", "GREEN",
                "Record count meets expected minimum.",
                [record_count |-> record_count_value,
                 expected_min_records |-> expected_min_value]))
        ELSE IF RatioGe09(record_count_value, expected_min_value) THEN
            Return(CheckResult("completeness", "YELLOW",
                "Record count slightly below expected minimum.",
                [record_count |-> record_count_value,
                 expected_min_records |-> expected_min_value]))
        ELSE
            Return(CheckResult("completeness", "RED",
                "Record count significantly below expected minimum.",
                [record_count |-> record_count_value,
                 expected_min_records |-> expected_min_value]))

\* check_volume without the test expected_min_value <= 0
check_volume_no_floor(dataset, now) ==
    LET size_bytes == Get(dataset, "bytes")
        expected_min == Get(dataset, "expected_min_bytes")
        sv == PyFloat(size_bytes)
        em == PyFloat(expected_min)
        details == [bytes |-> size_bytes, expected_min_bytes |-> expected_min]
    IN  IF size_bytes.kind = "None" \/ expected_min.kind = "None" THEN
            Return(CheckResult("volume", "YELLOW",
                "Missing bytes or expected_min_bytes metadata.", details))
        ELSE IF sv.raise \in {"TypeError", "ValueError"}
                \/ em.raise \in {"TypeError", "ValueError"} THEN
            Return(CheckResult("volume", "YELLOW",
                "Invalid bytes or expected_min_bytes value.", details))
        ELSE IF FGe(sv.value, em.value) THEN
            Return(CheckResult("volume", "GREEN",
                "Volume meets expected minimum.", details))
        ELSE IF RatioGe09(sv.value, em.value) THEN
            Return(CheckResult("volume", "YELLOW",
                "Volume slightly below expected minimum.", details))
        ELSE
            Return(CheckResult("volume", "RED",
                "Volume significantly below expected minimum.", details))

\* checks/volume.py
check_volume(dataset, now) ==
    LET size_bytes == Get(dataset, "bytes")
        expected_min == Get(dataset, "expected_min_bytes")
        sv == PyFloat(size_bytes)
        em == PyFloat(expected_min)
        size_value == sv.value
        expected_min_value == em.value
    IN  IF size_bytes.kind = "None" \/ expected_min.kind = "None" THEN
            Return(CheckResult("volume", "YELLOW",
                "Missing bytes or expected_min_bytes metadata.",
                [bytes |-> size_bytes, expected_min_bytes |-> expected_min]))
        ELSE IF sv.raise \in {"TypeError", "ValueError"}
                \/ em.raise \in {"TypeError", "ValueError"} THEN
            Return(CheckResult("volume", "YELLOW",
                "Invalid bytes or expected_min_bytes value.",
                [bytes |-> size_bytes, expected_min_bytes |-> expected_min]))
        ELSE IF FLe(expected_min_value, Num(0)) THEN
            Return(CheckResult("volume", "YELLOW",
                "expected_min_bytes must be greater than 0.",
                [expected_min_bytes |-> expected_min_value]))
        ELSE IF FGe(size_value, expected_min_value) THEN
            Return(CheckResult("volume", "GREEN",
                "Volume meets expected minimum.",
                [bytes |-> size_value, expected_min_bytes |-> expected_min_value]))
        ELSE IF RatioGe09(size_value, expected_min_value) THEN
            Return(CheckResult("volume", "YELLOW",
                "Volume slightly below expected minimum.",
                [bytes |-> size_value, expected_min_bytes |-> expected_min_value]))
        ELSE
            Return(CheckResult("volume", "RED",
                "Volume significantly below expected minimum.",
                [bytes |-> size_value, expected_min_bytes |-> expected_min_value]))

\* str(item) for a list item
PyStr(item) == IF item.kind = "str" THEN item.s ELSE ToString(item.n)

\* checks/schema.py _normalize_schema
normalize_schema(value) ==
    IF value.kind = "list"
    THEN [i \in 1..Len(value.items) |-> PyStr(value.items[i])]
    ELSE <<>>

\* check_schema testing the extra fields before the missing ones
check_schema_extra_first(dataset, now) ==
    LET actual == normalize_schema(Get(dataset, "schema"))
        expected == normalize_schema(Get(dataset, "expected_schema"))
        missing == Sorted(SeqRange(expected) \ SeqRange(actual))
        extra == Sorted(SeqRange(actual) \ SeqRange(expected))
    IN  IF actual = <<>> \/ expected = <<>> THEN
            Return(CheckResult("schema", "YELLOW",
                "Missing schema or expected_schema metadata.",
                [schema |-> actual, expected_schema |-> expected]))
        ELSE IF extra # <<>> THEN
            Return(CheckResult("schema", "YELLOW", "Schema has extra fields.",
                [missing |-> missing, extra |-> extra]))
        ELSE IF missing # <<>> THEN
            Return(CheckResult("schema", "RED", "Missing expected fields.",
                [missing |-> missing, extra |-> extra]))
        ELSE
            Return(CheckResult("schema", "GREEN", "Schema matches expected fields.",
                [missing |-> missing, extra |-> extra]))

\* checks/schema.py
check_schema(dataset, now) ==
    LET actual == normalize_schema(Get(dataset, "schema"))
        expected == normalize_schema(Get(dataset, "expected_schema"))
        actual_set == SeqRange(actual)
        expected_set == SeqRange(expected)
        missing == Sorted(expected_set \ actual_set)
        extra == Sorted(actual_set \ expected_set)
    IN  IF actual = <<>> \/ expected = <<>> THEN
            Return(CheckResult("schema", "YELLOW",
                "Missing schema or expected_schema metadata.",
                [schema |-> actual, expected_schema |-> expected]))
        ELSE IF missing # <<>> THEN
            Return(CheckResult("schema", "RED", "Missing expected fields.",
                [missing |-> missing, extra |-> extra]))
        ELSE IF extra # <<>> THEN
            Return(CheckResult("schema", "YELLOW", "Schema has extra fields.",
                [missing |-> missing, extra |-> extra]))
        ELSE
            Return(CheckResult("schema", "GREEN", "Schema matches expected fields.",
                [missing |-> missing, extra |-> extra]))

(***************************************************************************)
(* health.py and output.py: aggregation and the report.                    *)
(***************************************************************************)
\* aggregate_status testing YELLOW before RED
aggregate_status_yellow_first(results) ==
    LET statuses == {results[i].status : i \in 1..Len(results)}
    IN  IF "YELLOW" \in statuses THEN "YELLOW"
        ELSE IF "RED" \in statuses THEN "RED"
        ELSE "GREEN"

\* health.aggregate_status
aggregate_status(results) ==
    LET statuses == {results[i].status : i \in 1..Len(results)}
    IN  IF "RED" \in statuses THEN "RED"
        ELSE IF "YELLOW" \in statuses THEN "YELLOW"
        ELSE "GREEN"

DatasetHealth(dataset, status, results) ==
    [dataset |-> dataset, status |-> status, checks |-> results]

HealthReport(generated_at, dataset_healths) ==
    [kind |-> "HealthReport", generated_at |-> generated_at,
     datasets |-> dataset_healths]

\* overall_status reading only the first dataset
overall_status_first(rep) ==
    IF rep.datasets = <<>> THEN "GREEN" ELSE rep.datasets[1].status

\* output.STATUS_TO_VALUE
STATUS_TO_VALUE == [s \in Status |-> CASE s = "GREEN" -> 0 [] s = "YELLOW" -> 1 [] s = "RED" -> 2]

\* output.status_value
status_value(status) == STATUS_TO_VALUE[status]

\* output.overall_status
overall_status(rep) ==
    LET statuses == {rep.datasets[i].status : i \in 1..Len(rep.datasets)}
    IN  IF "RED" \in statuses THEN "RED"
        ELSE IF "YELLOW" \in statuses THEN "YELLOW"
        ELSE "GREEN"

RECURSIVE CountStatuses(_, _)
\* the loop of summary: counts[dataset.status.value] += 1
CountStatuses(counts, dataset_healths) ==
    IF dataset_healths = <<>> THEN counts
    ELSE LET st == Head(dataset_healths).status
         IN  CountStatuses([counts EXCEPT ![st] = @ + 1], Tail(dataset_healths))

\* summary counting the CheckResults instead of the datasets
summary_of_checks(rep) ==
    LET RECURSIVE Flat(_)
        Flat(hs) == IF hs = <<>> THEN <<>> ELSE Head(hs).checks \o Flat(Tail(hs))
        counts == CountStatuses([k \in Status |-> 0], Flat(rep.datasets))
    IN  [k \in Status \cup {"total"} |->
            IF k = "total" THEN Len(rep.datasets) ELSE counts[k]]

\* HealthReport.summary
summary(rep) ==
    LET counts == CountStatuses([k \in Status |-> 0], rep.datasets)
    IN  [k \in Status \cup {"total"} |->
            IF k = "total" THEN Len(rep.datasets) ELSE counts[k]]

(***************************************************************************)
(* registry.py: CheckRegistry and DatasetRegistry.  A dict is the sequence *)
(* of its values in insertion order, keyed by their name field.            *)
(***************************************************************************)
CheckSpec(name, description, runner) ==
    [name |-> name, description |-> description, runner |-> runner]

Keys(dict) == {dict[i].name : i \in 1..Len(dict)}

Lookup(dict, name) == dict[CHOOSE i \in 1..Len(dict) : dict[i].name = name]

\* CheckRegistry.list, DatasetRegistry.list: [d[name] for name in sorted(d)]
List(dict) ==
    LET names == Sorted(Keys(dict))
    IN  [i \in 1..Len(names) |-> Lookup(dict, names[i])]

Names(records) == [i \in 1..Len(records) |-> records[i].name]

\* spec.runner(dataset, now).  The runners of the model: the built-in checks,
\* the runner of tests/test_health.py, and "broken", a callable that returns
\* None for the dataset named bad and a GREEN result for any other.
ApplyRunner(runner, dataset, now, clk) ==
    CASE runner = "check_freshness" -> check_freshness(dataset, now, clk)
      [] runner = "check_completeness" -> check_completeness(dataset, now)
      [] runner = "check_schema" -> check_schema(dataset, now)
      [] runner = "check_volume" -> check_volume(dataset, now)
      [] runner = "dummy" ->
            Return(CheckResult("dummy",
                IF dataset.name = "bad" THEN "RED" ELSE "GREEN", "ok", MapV))
      [] OTHER ->
            IF dataset.name = "bad" THEN Return(None_)
            ELSE Return(CheckResult("broken", "GREEN", "ok", MapV))

\* a runner that empties the metadata of the dataset it is given
DatasetCleared(runner, dataset) == [dataset EXCEPT !.metadata = [k \in {} |-> None_]]

\* the Dataset object after spec.runner(dataset, now): the runners only read
\* it, through dataset.get and dataset.name
DatasetAfter(runner, dataset) == dataset

\* the record of one runner invocation: who was called, with what, and the outcome
Invocation(spec, dataset, now, result) ==
    [check |-> spec.name, dataset |-> dataset.name, now |-> now, result |-> result]

RECURSIVE RunSpecs(_, _, _, _, _, _)
\* the loop of CheckRegistry.run_all over the specs still to run
RunSpecs(specs, dataset, now, clk, results, log) ==
    IF specs = <<>>
    THEN [raise |-> "", value |-> results, invocations |-> log, dataset |-> dataset]
    ELSE LET spec == Head(specs)
             result == ApplyRunner(spec.runner, dataset, now, clk)
             after == DatasetAfter(spec.runner, dataset)
             log1 == Append(log, Invocation(spec, dataset, now, result))
         IN  IF result.raise # "" THEN
                 [raise |-> result.raise, value |-> <<>>, invocations |-> log1,
                  dataset |-> after]
             ELSE IF ~IsCheckResult(result.value) THEN
                 [raise |-> "ValueError", value |-> <<>>, invocations |-> log1,
                  dataset |-> after]
             ELSE RunSpecs(Tail(specs), after, now, clk,
                           Append(results, result.value), log1)

RECURSIVE RunSpecsSkipping(_, _, _, _, _, _)
\* the loop of run_all, passing over a result that is no CheckResult
RunSpecsSkipping(specs, dataset, now, clk, results, log) ==
    IF specs = <<>>
    THEN [raise |-> "", value |-> results, invocations |-> log, dataset |-> dataset]
    ELSE LET spec == Head(specs)
             result == ApplyRunner(spec.runner, dataset, now, clk)
             after == DatasetAfter(spec.runner, dataset)
             log1 == Append(log, Invocation(spec, dataset, now, result))
         IN  IF result.raise # "" THEN
                 [raise |-> result.raise, value |-> <<>>, invocations |-> log1,
                  dataset |-> after]
             ELSE RunSpecsSkipping(Tail(specs), after, now, clk,
                      IF IsCheckResult(result.value) THEN Append(results, result.value)
                      ELSE results, log1)

\* run_all without the isinstance test
run_all_skip_invalid(registry, dataset, now, clk) ==
    RunSpecsSkipping(List(registry), dataset, now, clk, <<>>, <<>>)

\* run_all iterating the dict itself, in insertion order
run_all_insertion_order(registry, dataset, now, clk) ==
    RunSpecs(registry, dataset, now, clk, <<>>, <<>>)

\* CheckRegistry.run_all
run_all(registry, dataset, now, clk) ==
    RunSpecs(List(registry), dataset, now, clk, <<>>, <<>>)

\* health.evaluate_dataset
evaluate_dataset(dataset, registry, now, clk) ==
    LET check_results == run_all(registry, dataset, now, clk)
    IN  IF check_results.raise # "" THEN check_results
        ELSE [raise |-> "",
              value |-> DatasetHealth(dataset, aggregate_status(check_results.value),
                                      check_results.value),
              invocations |-> check_results.invocations,
              dataset |-> check_results.dataset]

(***************************************************************************)
(* registry.py: loading dataset definitions.  A parsed YAML mapping is a    *)
(* Mapping of its entries, a function from the keys present to values.     *)
(***************************************************************************)
Mapping(entries) == [kind |-> "dict", entries |-> entries]

\* payload.get(key)
PayloadGet(payload, key) ==
    IF key \in DOMAIN payload.entries THEN payload.entries[key] ELSE None_

\* bool(v): None, 0, "", [] and {} are falsy
Truthy(v) ==
    CASE v.kind = "None" -> FALSE
      [] v.kind = "number" -> v.n # 0
      [] v.kind = "str" -> v.s # ""
      [] v.kind = "list" -> v.items # <<>>
      [] v.kind = "dict" -> DOMAIN v.entries # {}
      [] OTHER -> TRUE

\* str.strip() on the texts the model uses
Strip(s) ==
    CASE s = " good " -> "good"
      [] s = "bad " -> "bad"
      [] s = "  " -> ""
      [] OTHER -> s

\* str(payload.get(key) or "")
StrOrEmpty(payload, key) ==
    LET v == PayloadGet(payload, key)
    IN  IF Truthy(v) THEN PyStr(v) ELSE ""

ReservedKeys == {"name", "description", "location", "owner"}

\* registry._dataset_from_dict
dataset_from_dict(payload, source) ==
    IF payload.kind # "dict" THEN Raise("ValueError")
    ELSE LET name == Strip(StrOrEmpty(payload, "name"))
         IN  IF name = "" THEN Raise("ValueError")
             ELSE Return([name |-> name,
                          description |-> StrOrEmpty(payload, "description"),
                          location |-> StrOrEmpty(payload, "location"),
                          owner |-> StrOrEmpty(payload, "owner"),
                          metadata |-> [k \in DOMAIN payload.entries \ ReservedKeys |->
                                           payload.entries[k]],
                          source |-> source])

\* add assigning self._datasets[name] without the membership test
add_append(registry, dataset) ==
    [raise |-> "", value |-> Append(registry, dataset)]

\* DatasetRegistry.add
add(registry, dataset) ==
    IF dataset.name \in Keys(registry) THEN [raise |-> "ValueError", value |-> registry]
    ELSE [raise |-> "", value |-> Append(registry, dataset)]

RECURSIVE LoadDefinitions(_, _, _)
\* the loop of _load_file: _dataset_from_dict, then add, for each definition;
\* an exception ends it with the datasets added so far kept
LoadDefinitions(registry, definitions, source) ==
    IF definitions = <<>> THEN [raise |-> "", value |-> registry]
    ELSE LET dataset == dataset_from_dict(Head(definitions), source)
             added == add(registry, dataset.value)
         IN  IF dataset.raise # "" THEN [raise |-> dataset.raise, value |-> registry]
             ELSE IF added.raise # "" THEN added
             ELSE LoadDefinitions(added.value, Tail(definitions), source)

\* _load_file adding the definitions of a file all together or not at all
load_file_atomic(registry, file) ==
    LET payload == IF Truthy(file.payload) THEN file.payload
                   ELSE Mapping([k \in {} |-> None_])
        loaded == CASE payload.kind = "list" ->
                          LoadDefinitions(registry, payload.items, file.name)
                    [] payload.kind = "dict" ->
                          LoadDefinitions(registry, <<payload>>, file.name)
                    [] OTHER -> [raise |-> "ValueError", value |-> registry]
    IN  IF loaded.raise # "" THEN [raise |-> loaded.raise, value |-> registry]
        ELSE loaded

\* DatasetRegistry._load_file; file.payload is what yaml.safe_load returns
load_file(registry, file) ==
    LET payload == IF Truthy(file.payload) THEN file.payload
                   ELSE Mapping([k \in {} |-> None_])
    IN  CASE payload.kind = "list" ->
                LoadDefinitions(registry, payload.items, file.name)
          [] payload.kind = "dict" ->
                LoadDefinitions(registry, <<payload>>, file.name)
          [] OTHER -> [raise |-> "ValueError", value |-> registry]

RECURSIVE LoadFiles(_, _)
\* the loop of load_from_path over the files of a directory
LoadFiles(registry, files) ==
    IF files = <<>> THEN [raise |-> "", value |-> registry]
    ELSE LET loaded == load_file(registry, Head(files))
         IN  IF loaded.raise # "" THEN loaded
             ELSE LoadFiles(loaded.value, Tail(files))

\* sorted({*path.glob("*.yaml"), *path.glob("*.yml")})
SortedFiles(files) ==
    LET names == Sorted({f.name : f \in files})
    IN  [i \in 1..Len(names) |-> CHOOSE f \in files : f.name = names[i]]

\* DatasetRegistry.load_from_path
load_from_path(registry, path) ==
    CASE path.kind = "dir" -> LoadFiles(registry, SortedFiles(path.files))
      [] path.kind = "file" -> load_file(registry, path.file)
      [] OTHER -> [raise |-> "FileNotFoundError", value |-> registry]

\* collecting in reverse
CollectFirst(reports, health) == <<health>> \o reports

\* health.evaluate_all: the list comprehension collects in iteration order
Collect(reports, health) == Append(reports, health)

\* evaluation_time always read from the clock
ResolveNowFromClock(now, clk) == DateTime(clk, TRUE)

\* health.evaluate_all: evaluation_time = now or datetime.now(timezone.utc)
ResolveNow(now, clk) == IF now.kind = "None" THEN DateTime(clk, TRUE) ELSE now

\* each evaluate_dataset call given the clock's reading
NowArgumentFromClock(evalTime, clk) == DateTime(clk, TRUE)

\* health.evaluate_all: the now= argument of each evaluate_dataset call
NowArgument(evalTime, clk) == evalTime

\* register assigning self._checks[name] without the membership test
register_overwrite(registry, name, description, runner) ==
    IF name \in Keys(registry)
    THEN [raise |-> "",
          value |-> [i \in 1..Len(registry) |->
                        IF registry[i].name = name
                        THEN CheckSpec(name, description, runner)
                        ELSE registry[i]]]
    ELSE [raise |-> "",
          value |-> Append(registry, CheckSpec(name, description, runner))]

\* CheckRegistry.register
register(registry, name, description, runner) ==
    IF name \in Keys(registry) THEN [raise |-> "ValueError", value |-> registry]
    ELSE [raise |-> "",
          value |-> Append(registry, CheckSpec(name, description, runner))]

(***************************************************************************)
(* registry.py: plugin loading.  An entry point is its name and what its   *)
(* load() does: raise, or return a CheckSpec, a callable or another object.*)
(***************************************************************************)
EntryPoint(name, plugin) == [name |-> name, plugin |-> plugin]

LoadError(error) == [kind |-> "raise", error |-> error]
PluginSpec(spec) == [kind |-> "CheckSpec", spec |-> spec]
PluginCallable(runner, doc) == [kind |-> "callable", runner |-> runner, doc |-> doc]
PluginObject == [kind |-> "object"]

\* (plugin.__doc__ or "Entry point plugin.").strip()
PluginDescription(plugin) ==
    IF Truthy(plugin.doc) THEN Strip(plugin.doc.s) ELSE "Entry point plugin."

\* the body of the try block for one entry point: the registry and the
\* exception raised, "" when the plugin was registered
LoadPlugin(registry, entry_point) ==
    LET plugin == entry_point.plugin
    IN  CASE plugin.kind = "raise" -> [raise |-> plugin.error, value |-> registry]
          [] plugin.kind = "CheckSpec" ->
                register(registry, plugin.spec.name, plugin.spec.description,
                         plugin.spec.runner)
          [] plugin.kind = "callable" ->
                register(registry, entry_point.name, PluginDescription(plugin),
                         plugin.runner)
          [] OTHER -> [raise |-> "TypeError", value |-> registry]

\* f"{entry_point.name}: {exc}"
Warning(entry_point, error) == [entry_point |-> entry_point.name, error |-> error]

RECURSIVE LoadEntryPoints(_, _, _, _)
\* the loop of load_entrypoint_checks over the selected entry points
LoadEntryPoints(registry, selected, count, errors) ==
    IF selected = <<>>
    THEN [raise |-> "", count |-> count, errors |-> errors, registry |-> registry]
    ELSE LET loaded == LoadPlugin(registry, Head(selected))
         IN  IF loaded.raise = ""
             THEN LoadEntryPoints(loaded.value, Tail(selected), count + 1, errors)
             ELSE LoadEntryPoints(registry, Tail(selected), count,
                                  Append(errors, Warning(Head(selected), loaded.raise)))

RECURSIVE LoadEntryPointsAborting(_, _, _, _)
\* the loop with the try block around it: the first failure ends the loading
LoadEntryPointsAborting(registry, selected, count, errors) ==
    IF selected = <<>>
    THEN [raise |-> "", count |-> count, errors |-> errors, registry |-> registry]
    ELSE LET loaded == LoadPlugin(registry, Head(selected))
         IN  IF loaded.raise = ""
             THEN LoadEntryPointsAborting(loaded.value, Tail(selected), count + 1, errors)
             ELSE [raise |-> "", count |-> count,
                   errors |-> Append(errors, Warning(Head(selected), loaded.raise)),
                   registry |-> registry]

\* load_entrypoint_checks giving up at the first plugin that fails
load_entrypoint_checks_aborting(registry, entry_points) ==
    IF entry_points.kind = "failed"
    THEN [raise |-> "", count |-> 0,
          errors |-> <<[entry_point |-> "", error |-> entry_points.error]>>,
          registry |-> registry]
    ELSE LoadEntryPointsAborting(registry, entry_points.selected, 0, <<>>)

\* registry.load_entrypoint_checks; entry_points is what the discovery
\* importlib.metadata.entry_points() does: fail, or yield the selected ones
load_entrypoint_checks(registry, entry_points) ==
    IF entry_points.kind = "failed"
    THEN [raise |-> "", count |-> 0,
          errors |-> <<[entry_point |-> "", error |-> entry_points.error]>>,
          registry |-> registry]
    ELSE LoadEntryPoints(registry, entry_points.selected, 0, <<>>)

\* the @register_check decorators of the four checks/ modules, in the order
\* load_builtin_checks imports them
BuiltinSpecs ==
    <<CheckSpec("freshness", "Data is updated within freshness SLA.", "check_freshness"),
      CheckSpec("completeness", "Dataset meets expected record count.",
                "check_completeness"),
      CheckSpec("schema", "Schema matches expected fields.", "check_schema"),
      CheckSpec("volume", "Dataset volume meets expected minimum.", "check_volume")>>

RECURSIVE RegisterAll(_, _)
\* CHECK_REGISTRY.register for each of a sequence of specs
RegisterAll(registry, specs) ==
    IF specs = <<>> THEN [raise |-> "", value |-> registry]
    ELSE LET out == register(registry, Head(specs).name, Head(specs).description,
                             Head(specs).runner)
         IN  IF out.raise # "" THEN out ELSE RegisterAll(out.value, Tail(specs))

\* registry.load_builtin_checks
load_builtin_checks(registry) == RegisterAll(registry, BuiltinSpecs)

(***************************************************************************)
(* Inputs.                                                                 *)
(***************************************************************************)
CheckNames == {"dummy", "freshness"}
Runners == {"check_freshness", "dummy", "broken"}
Descriptions == {"test"}
DatasetNames == {"bad", "good"}

\* a dataset without check metadata, and one last updated at instant 0 with
\* a freshness SLA of 0 hours
SampleMetadata ==
    {NoMetadata,
     [NoMetadata EXCEPT !["last_updated"] = Num(0), !["freshness_hours"] = Num(0)]}

SampleDatasets == {Dataset(n, m) : n \in DatasetNames, m \in SampleMetadata}

NowArguments == {None_} \cup {DateTime(t, TRUE) : t \in 0..MaxClock}

SeqsOver(S, n) == UNION {[1..k -> S] : k \in 0..n}

\* the sequences of distinct members of a sequence, in every order
Selections(s) ==
    {q \in SeqsOver(SeqRange(s), Len(s)) :
        \A i, j \in 1..Len(q) : i # j => q[i] # q[j]}

NoCall == [kind |-> "None"]

\* dataset definitions: one with a padded name, an owner and the metadata of a
\* healthy dataset, one with a name only, one named by a number, one without
\* a name
DefGood ==
    Mapping([name |-> Str_(" good "), owner |-> Str_("team"),
             last_updated |-> Num(0), freshness_hours |-> Num(9),
             record_count |-> Num(1), expected_min_records |-> Num(1),
             bytes |-> Num(1), expected_min_bytes |-> Num(1),
             schema |-> ListV(<<Str_("id")>>),
             expected_schema |-> ListV(<<Str_("id")>>)])
DefBad == Mapping([name |-> Str_("bad")])
DefOne == Mapping([name |-> Num(1)])
DefNoName == Mapping([description |-> Str_("d")])

\* what yaml.safe_load returns for a file: a sequence of definitions, one
\* definition, nothing (an empty file), a scalar
Payloads ==
    {ListV(<<DefGood, DefBad>>), ListV(<<DefBad, DefNoName, DefGood>>),
     ListV(<<DefOne, BadText>>), DefOne, None_, BadText}

FileNames == {"a.yaml", "b.yml"}

File(name, payload) == [name |-> name, payload |-> payload]

Files == {File(n, p) : n \in FileNames, p \in Payloads}

\* a path that does not exist, a file, a directory of files of distinct names
Paths ==
    {[kind |-> "missing"]}
    \cup {[kind |-> "file", file |-> f] : f \in Files}
    \cup {[kind |-> "dir", files |-> fs] :
             fs \in {fs \in SUBSET Files : \A f, g \in fs : f.name = g.name => f = g}}

(***************************************************************************)
(* The library specification: registration and evaluation.                 *)
(***************************************************************************)
Init ==
    /\ checks = <<>>
    /\ datasets = <<>>
    /\ raised = ""
    /\ pc = "idle"
    /\ call = NoCall
    /\ evaluation_time = None_
    /\ pending = <<>>
    /\ dataset_reports = <<>>
    /\ report = None_
    /\ invocations = <<>>
    /\ previous = None_
    /\ clock = 0
    /\ arg = None_
    /\ ret = None_

\* a call other than evaluate_all resolves no time, returns no report and
\* invokes no runner
NoEvaluation ==
    /\ evaluation_time' = None_
    /\ report' = None_
    /\ invocations' = <<>>
    /\ previous' = None_
    /\ UNCHANGED <<pc, pending, dataset_reports, clock, arg, ret>>

\* CHECK_REGISTRY.register(name, description, runner)
Register(name, description, runner) ==
    /\ pc = "idle"
    /\ call' = [kind |-> "register", name |-> name, description |-> description,
                runner |-> runner]
    /\ LET out == register(checks, name, description, runner)
       IN  /\ checks' = out.value
           /\ raised' = out.raise
    /\ UNCHANGED datasets
    /\ NoEvaluation

\* registry.add(dataset)
Add(dataset) ==
    /\ pc = "idle"
    /\ call' = [kind |-> "add", dataset |-> dataset]
    /\ LET out == add(datasets, dataset)
       IN  /\ datasets' = out.value
           /\ raised' = out.raise
    /\ UNCHANGED checks
    /\ NoEvaluation

\* registry.load_from_path(path)
LoadFromPath(path) ==
    /\ pc = "idle"
    /\ call' = [kind |-> "load_from_path", path |-> path]
    /\ LET out == load_from_path(datasets, path)
       IN  /\ datasets' = out.value
           /\ raised' = out.raise
    /\ UNCHANGED checks
    /\ NoEvaluation

\* the latest evaluate_all call, kept for the next one to be compared with
Completed == [call |-> call, raised |-> raised, report |-> report]

\* evaluate_all(datasets, registry, now): entry, evaluation_time resolved
EvaluateAllBegin(ds, now) ==
    /\ pc = "idle"
    /\ pc' = "evaluating"
    /\ call' = [kind |-> "evaluate_all", datasets |-> ds, now |-> now]
    /\ previous' = IF call' = call /\ now.kind # "None" THEN Completed ELSE None_
    /\ evaluation_time' = ResolveNow(now, clock)
    /\ pending' = ds
    /\ dataset_reports' = <<>>
    /\ report' = None_
    /\ invocations' = <<>>
    /\ raised' = ""
    /\ UNCHANGED <<checks, datasets, clock, arg, ret>>

\* the registry's dict once a Dataset object it holds is in the state `after`
Stored(registry, dataset, after) ==
    [i \in 1..Len(registry) |-> IF registry[i] = dataset THEN after ELSE registry[i]]

\* the effect of one iteration, given what evaluate_dataset did: an exception
\* ends the call and drops the list built so far
StepOutcome(out) ==
    /\ invocations' = invocations \o out.invocations
    /\ datasets' = Stored(datasets, Head(pending), out.dataset)
    /\ IF out.raise # "" THEN
           /\ raised' = out.raise
           /\ pc' = "idle"
           /\ pending' = <<>>
           /\ dataset_reports' = <<>>
       ELSE
           /\ dataset_reports' = Collect(dataset_reports, out.value)
           /\ pending' = Tail(pending)
           /\ UNCHANGED <<raised, pc>>

\* one iteration of the list comprehension: evaluate_dataset on the next dataset
EvaluateAllStep ==
    /\ pc = "evaluating"
    /\ pending # <<>>
    /\ StepOutcome(evaluate_dataset(Head(pending), checks,
                                    NowArgument(evaluation_time, clock), clock))
    /\ UNCHANGED <<checks, call, evaluation_time, report, previous,
                   clock, arg, ret>>

\* return HealthReport(generated_at=evaluation_time, datasets=dataset_reports)
EvaluateAllReturn ==
    /\ pc = "evaluating"
    /\ pending = <<>>
    /\ report' = HealthReport(evaluation_time, dataset_reports)
    /\ pc' = "idle"
    /\ dataset_reports' = <<>>
    /\ UNCHANGED <<checks, datasets, raised, call, evaluation_time, pending,
                   invocations, previous, clock, arg, ret>>

\* time passes
Tick ==
    /\ clock < MaxClock
    /\ clock' = clock + 1
    /\ UNCHANGED <<checks, datasets, raised, pc, call, evaluation_time, pending,
                   dataset_reports, report, invocations, previous, arg, ret>>

Next ==
    \/ \E name \in CheckNames, description \in Descriptions, runner \in Runners :
          Register(name, description, runner)
    \/ \E dataset \in SampleDatasets : Add(dataset)
    \/ \E ds \in Selections(datasets), now \in NowArguments : EvaluateAllBegin(ds, now)
    \/ EvaluateAllStep
    \/ EvaluateAllReturn
    \/ Tick

Spec == Init /\ [][Next]_vars

(***************************************************************************)
(* The dataset registry filled by add and load_from_path.                  *)
(***************************************************************************)
NextDatasets ==
    \/ \E dataset \in SampleDatasets : Add(dataset)
    \/ \E path \in Paths : LoadFromPath(path)

SpecDatasets == Init /\ [][NextDatasets]_vars

\* registries and discovered plugins
Registries ==
    {r \in SeqsOver({CheckSpec("freshness", "test", "check_freshness"),
                     CheckSpec("dummy", "test", "dummy")}, 2) :
        \A i, j \in 1..Len(r) : r[i].name = r[j].name => i = j}

Plugins ==
    {LoadError("ImportError"), PluginObject,
     PluginCallable("broken", None_), PluginCallable("dummy", Str_("test")),
     PluginSpec(CheckSpec("freshness", "test", "check_freshness"))}

MaxEntryPoints == 3

Discoveries ==
    {[kind |-> "failed", error |-> "Exception"]}
    \cup {[kind |-> "selected", selected |-> eps] :
             eps \in SeqsOver({EntryPoint(n, pl) : n \in CheckNames, pl \in Plugins},
                              MaxEntryPoints)}

(***************************************************************************)
(* cli.main: the registries are filled, then evaluate_all runs once on     *)
(* registry.list().  call.step is the statement of main last executed.     *)
(***************************************************************************)
MainAt(step) == call.kind = "main" /\ call.step = step /\ raised = ""

MainStep(step) == [kind |-> "main", step |-> step]

\* registry = DatasetRegistry(); registry.load_from_path(dataset_path)
MainLoadFromPath(path) ==
    /\ pc = "idle"
    /\ call = NoCall
    /\ call' = [kind |-> "main", step |-> "load_from_path", path |-> path]
    /\ LET out == load_from_path(datasets, path)
       IN  /\ datasets' = out.value
           /\ raised' = out.raise
    /\ UNCHANGED checks
    /\ NoEvaluation

\* load_builtin_checks()
MainLoadBuiltinChecks ==
    /\ MainAt("load_from_path")
    /\ call' = MainStep("load_builtin_checks")
    /\ LET out == load_builtin_checks(checks)
       IN  /\ checks' = out.value
           /\ raised' = out.raise
    /\ UNCHANGED datasets
    /\ NoEvaluation

\* _, errors = load_entrypoint_checks(); the warnings go to stderr
MainLoadEntrypointChecks(entry_points) ==
    /\ MainAt("load_builtin_checks")
    /\ call' = MainStep("load_entrypoint_checks")
    /\ LET out == load_entrypoint_checks(checks, entry_points)
       IN  /\ checks' = out.registry
           /\ raised' = out.raise
    /\ UNCHANGED datasets
    /\ NoEvaluation

\* report = evaluate_all(registry.list(), CHECK_REGISTRY, now=now)
MainEvaluateAll(now) ==
    /\ MainAt("load_entrypoint_checks")
    /\ \E ds \in {List(datasets)} : EvaluateAllBegin(ds, now)

\* --output: the single-format modes; "default" is args.output None, the
\* stdout / health.json / health.html branch
Outputs == {"default", "report-json", "summary-json", "jsonl", "prometheus", "cloudwatch"}

\* --fail-on
FailOn == {"none", "yellow", "red"}

\* what a run of main has produced: the outputs written and the exit code
MainResult(written, exit) == [kind |-> "main", written |-> written, exit |-> exit]

\* the output written in one mode from a report
Written(output, rep) == [output |-> output, report |-> rep]

\* the output step: the report is emitted in the selected mode.  A failure to
\* emit CloudWatch metrics is caught and main returns 1; a failure to write in
\* another mode is an exception that leaves main.
MainOutput(output, failed) ==
    /\ pc = "idle"
    /\ call.kind = "evaluate_all"
    /\ raised = ""
    /\ report # None_
    /\ call' = [kind |-> "main",
                step |-> IF failed /\ output = "cloudwatch" THEN "return 1" ELSE "output",
                output |-> output]
    /\ raised' = IF failed /\ output # "cloudwatch" THEN "OSError" ELSE ""
    /\ ret' = IF failed
              THEN MainResult(<<>>, IF output = "cloudwatch" THEN 1 ELSE None_)
              ELSE MainResult(<<Written(output, report)>>, None_)
    /\ UNCHANGED <<checks, datasets, pc, evaluation_time, pending, dataset_reports,
                   report, invocations, previous, clock, arg>>

\* the --fail-on threshold confined to YELLOW
exit_code_yellow_only(fail_on, overall) ==
    IF fail_on = "red" /\ overall = "RED" THEN 2
    ELSE IF fail_on = "yellow" /\ overall = "YELLOW" THEN 2
    ELSE 0

\* the exit code main returns once the output is written
exit_code(fail_on, overall) ==
    IF fail_on = "red" /\ overall = "RED" THEN 2
    ELSE IF fail_on = "yellow" /\ overall \in {"YELLOW", "RED"} THEN 2
    ELSE 0

\* the return statements that end main
MainReturn(fail_on) ==
    /\ MainAt("output")
    /\ pc = "idle"
    /\ call' = [kind |-> "main", step |-> "return", fail_on |-> fail_on]
    /\ ret' = MainResult(ret.written, exit_code(fail_on, overall_status(report)))
    /\ UNCHANGED <<checks, datasets, raised, pc, evaluation_time, pending,
                   dataset_reports, report, invocations, previous, clock, arg>>

NextMain ==
    \/ \E path \in Paths : MainLoadFromPath(path)
    \/ MainLoadBuiltinChecks
    \/ \E entry_points \in Discoveries : MainLoadEntrypointChecks(entry_points)
    \/ \E now \in NowArguments : MainEvaluateAll(now)
    \/ EvaluateAllStep
    \/ EvaluateAllReturn
    \/ \E output \in Outputs, failed \in BOOLEAN : MainOutput(output, failed)
    \/ \E fail_on \in FailOn : MainReturn(fail_on)
    \/ Tick

SpecMain == Init /\ [][NextMain]_vars

(***************************************************************************)
(* Functions applied directly to inputs drawn from bounded sets.           *)
(***************************************************************************)
LibraryIdle ==
    /\ checks = <<>>
    /\ datasets = <<>>
    /\ raised = ""
    /\ pc = "idle"
    /\ call = NoCall
    /\ evaluation_time = None_
    /\ pending = <<>>
    /\ dataset_reports = <<>>
    /\ report = None_
    /\ invocations = <<>>
    /\ previous = None_
    /\ clock = 0

LibraryUnchanged ==
    UNCHANGED <<checks, datasets, raised, pc, call, evaluation_time, pending,
                dataset_reports, report, invocations, previous, clock>>

\* aggregate_status applied to a sequence of CheckResults
ResultSeqs ==
    SeqsOver({CheckResult("dummy", st, "ok", MapV) : st \in Status}, MaxResults)

InitAggregate ==
    /\ LibraryIdle
    /\ arg \in {[fn |-> "aggregate_status", results |-> rs] : rs \in ResultSeqs}
    /\ ret = None_

Aggregate ==
    /\ ret = None_
    /\ ret' = Return(aggregate_status(arg.results))
    /\ UNCHANGED arg
    /\ LibraryUnchanged

SpecAggregate == InitAggregate /\ [][Aggregate]_vars

\* a built-in check applied to a dataset holding its two metadata keys
Instants == {DateTime(t, TRUE) : t \in 0..MaxNum}

Items == {Str_("id"), Str_("ts"), Str_("1"), Num(1)}

Values ==
    {None_, NaN, Inf, BadText, MapV}
    \cup {Num(n) : n \in -1..MaxNum}
    \cup {Num(9), Num(10)}     \* 9 of 10: the 0.9 ratio
    \cup {NumText(n) : n \in 0..MaxNum}
    \cup {IsoText(t, tz) : t \in 0..MaxNum, tz \in {"naive", "Z", "+00:00", "+01:00"}}
    \cup {DateTime(t, aware) : t \in 0..MaxNum, aware \in BOOLEAN}
    \cup {ListV(items) : items \in SeqsOver(Items, 2)}

CheckKeys ==
    [check_freshness |-> <<"last_updated", "freshness_hours">>,
     check_completeness |-> <<"record_count", "expected_min_records">>,
     check_volume |-> <<"bytes", "expected_min_bytes">>,
     check_schema |-> <<"schema", "expected_schema">>]

BuiltinChecks == DOMAIN CheckKeys

CheckInput(fn, a, b, now) ==
    [fn |-> fn,
     dataset |-> Dataset("sample",
         [NoMetadata EXCEPT ![CheckKeys[fn][1]] = a, ![CheckKeys[fn][2]] = b]),
     now |-> now]

InitChecks ==
    /\ LibraryIdle
    /\ arg \in {CheckInput(fn, a, b, now) :
                  fn \in BuiltinChecks, a \in Values, b \in Values, now \in Instants}
    /\ ret = None_

RunCheck ==
    /\ ret = None_
    /\ ret' = ApplyRunner(arg.fn, arg.dataset, arg.now, clock)
    /\ UNCHANGED arg
    /\ LibraryUnchanged

SpecChecks == InitChecks /\ [][RunCheck]_vars

\* _dataset_from_dict applied to a parsed definition
Absent == [kind |-> "absent"]

\* the mapping of the keys of f that are present
Present(f) == [k \in {k \in DOMAIN f : f[k] # Absent} |-> f[k]]

NameValues ==
    {Absent, None_, Str_("good"), Str_(" good "), Str_("  "), Str_(""), Num(1), Num(0)}

Definitions ==
    {None_, BadText, Num(1), ListV(<<>>)}
    \cup {Mapping(Present(f)) :
             f \in [name : NameValues,
                    description : {Absent, None_, Str_("d")},
                    location : {Absent, Str_("s3")},
                    owner : {Absent, Str_("team")},
                    record_count : {Absent, None_, Num(1)},
                    schema : {Absent, ListV(<<Str_("id")>>)}]}

InitLoader ==
    /\ LibraryIdle
    /\ arg \in {[fn |-> "dataset_from_dict", payload |-> d, source |-> n] :
                  d \in Definitions, n \in FileNames}
    /\ ret = None_

FromDict ==
    /\ ret = None_
    /\ ret' = dataset_from_dict(arg.payload, arg.source)
    /\ UNCHANGED arg
    /\ LibraryUnchanged

SpecLoader == InitLoader /\ [][FromDict]_vars

\* load_entrypoint_checks applied to a registry and the discovered plugins
InitPlugins ==
    /\ LibraryIdle
    /\ arg \in {[fn |-> "load_entrypoint_checks", registry |-> r, entry_points |-> e] :
                  r \in Registries, e \in Discoveries}
    /\ ret = None_

LoadEntrypointChecks ==
    /\ ret = None_
    /\ ret' = load_entrypoint_checks(arg.registry, arg.entry_points)
    /\ UNCHANGED arg
    /\ LibraryUnchanged

SpecPlugins == InitPlugins /\ [][LoadEntrypointChecks]_vars

\* parse_datetime applied to a value, then check_freshness applied to a dataset
\* whose last_updated is that value
InitParse ==
    /\ LibraryIdle
    /\ arg \in {[fn |-> "parse_datetime", value |-> v] : v \in Values}
    /\ ret = None_

ParseDatetime ==
    /\ ret = None_
    /\ ret' = [parsed |-> parse_datetime(arg.value), freshness |-> None_]
    /\ UNCHANGED arg
    /\ LibraryUnchanged

Freshness(now) ==
    /\ ret # None_
    /\ ret.freshness = None_
    /\ ret' = [ret EXCEPT !.freshness =
                  check_freshness(
                      Dataset("sample",
                              [NoMetadata EXCEPT !["last_updated"] = arg.value,
                                                 !["freshness_hours"] = Num(1)]),
                      now, clock)]
    /\ UNCHANGED arg
    /\ LibraryUnchanged

NextParse ==
    \/ ParseDatetime
    \/ \E now \in Instants : Freshness(now)

SpecParse == InitParse /\ [][NextParse]_vars

(***************************************************************************)
(* Claims.                                                                 *)
(***************************************************************************)
Some(results, status) == \E i \in 1..Len(results) : results[i].status = status

\* The worst status of a sequence of records with a status field, by the
\* severity order RED > YELLOW > GREEN; GREEN when there is none.
Worst(results) ==
    IF Some(results, "RED") THEN "RED"
    ELSE IF Some(results, "YELLOW") THEN "YELLOW"
    ELSE "GREEN"

\* C1: for every finite collection of CheckResults aggregate_status returns RED
\* iff some result is RED, otherwise YELLOW iff some result is YELLOW, otherwise
\* GREEN; the empty collection yields GREEN.
C1_AggregateStatus ==
    ret # None_ =>
        /\ ret.raise = ""
        /\ (ret.value = "RED") <=> Some(arg.results, "RED")
        /\ (ret.value = "YELLOW") <=>
              (~Some(arg.results, "RED") /\ Some(arg.results, "YELLOW"))
        /\ (ret.value = "GREEN") <=>
              (~Some(arg.results, "RED") /\ ~Some(arg.results, "YELLOW"))
        /\ (arg.results = <<>> => ret.value = "GREEN")

\* aggregate_status has returned RED for results that hold a YELLOW and a RED
C1_Witness ==
    /\ ret # None_
    /\ ret.value = "RED"
    /\ Some(arg.results, "YELLOW")
    /\ Some(arg.results, "GREEN")
    /\ Len(arg.results) >= 3

\* the DatasetHealth records of the latest evaluate_all call: those of its
\* report once it has returned, those collected so far while it runs
Healths == IF report.kind = "HealthReport" THEN report.datasets ELSE dataset_reports

RECURSIVE AllChecks(_)
\* the CheckResults of all the DatasetHealth records of a sequence
AllChecks(dataset_healths) ==
    IF dataset_healths = <<>> THEN <<>>
    ELSE Head(dataset_healths).checks \o AllChecks(Tail(dataset_healths))

\* C2: for every HealthReport evaluate_all produces, overall_status(report) is
\* the worst status (RED > YELLOW > GREEN) among all CheckResults of all its
\* datasets, and GREEN when the report holds no CheckResult.
C2_OverallIsWorstCheck ==
    report.kind = "HealthReport" =>
        /\ overall_status(report) = Worst(AllChecks(report.datasets))
        /\ (AllChecks(report.datasets) = <<>> => overall_status(report) = "GREEN")

\* a report of two datasets, the second one RED by one of its two checks, the
\* first one not RED
C2_Witness ==
    /\ report.kind = "HealthReport"
    /\ Len(report.datasets) = 2
    /\ Len(report.datasets[2].checks) = 2
    /\ report.datasets[1].status = "YELLOW"
    /\ Some(report.datasets[2].checks, "RED")
    /\ Some(report.datasets[2].checks, "GREEN")
    /\ overall_status(report) = "RED"

\* C3: after any sequence of successful and failed register calls, list()
\* returns the registered specs in strictly ascending name order, and run_all
\* invokes the runners in that order and returns one result per registered
\* check, the i-th being the one the i-th spec of list() returned.
C3_ListSortedRunAllInOrder ==
    LET L == List(checks)
        n == Len(L)
    IN  /\ IsStrictlyAscending(Names(L))
        /\ Len(L) = Len(checks)
        /\ SeqRange(L) = SeqRange(checks)
        /\ \A j \in 1..Len(invocations) :
              invocations[j].check = L[((j - 1) % n) + 1].name
        /\ \A k \in 1..Len(Healths) :
              /\ Len(Healths[k].checks) = n
              /\ \A i \in 1..n :
                    LET inv == invocations[(k - 1) * n + i]
                    IN  /\ inv.check = L[i].name
                        /\ inv.dataset = Healths[k].dataset.name
                        /\ Healths[k].checks[i] = inv.result.value
                        /\ inv.result =
                              ApplyRunner(L[i].runner, Healths[k].dataset, inv.now, clock)

\* two checks registered in descending name order have been run on a dataset
C3_Witness ==
    /\ Len(checks) = 2
    /\ Rank(checks[1].name) > Rank(checks[2].name)
    /\ Len(Healths) >= 1
    /\ Len(Healths[1].checks) = 2
    /\ Healths[1].checks[1] # Healths[1].checks[2]

RegistriesUnchangedWithValueError ==
    /\ raised' = "ValueError"
    /\ checks' = checks
    /\ datasets' = datasets

\* C4: CheckRegistry.register with a name already registered, and
\* DatasetRegistry.add with a dataset whose name is already present, fail with
\* an error and leave the registry as it was: the stored spec or dataset is
\* not replaced and no entry is added or removed.
C4_DuplicateFailsUnchanged ==
    [][/\ \A name \in CheckNames, description \in Descriptions, runner \in Runners :
              (Register(name, description, runner) /\ name \in Keys(checks))
                  => RegistriesUnchangedWithValueError
       /\ \A dataset \in SampleDatasets :
              (Add(dataset) /\ dataset.name \in Keys(datasets))
                  => RegistriesUnchangedWithValueError]_vars

\* a register call has failed on a name whose stored spec has another runner,
\* with a dataset registered
C4_Witness ==
    /\ call.kind = "register"
    /\ raised = "ValueError"
    /\ call.name \in Keys(checks)
    /\ Lookup(checks, call.name).runner # call.runner
    /\ datasets # <<>>

\* a runner returned a value that is no CheckResult
BadReturn(inv) == inv.result.raise = "" /\ ~IsCheckResult(inv.result.value)

\* C5: if a registered runner returns a value that is not a CheckResult,
\* run_all fails with an error, the failure propagates through
\* evaluate_dataset and evaluate_all, no DatasetHealth and no HealthReport is
\* produced for that run, and the value is in no result list and no status.
C5_InvalidResultIsFatal ==
    /\ \A j \in 1..Len(invocations) :
          BadReturn(invocations[j]) =>
              /\ j = Len(invocations)
              /\ raised = "ValueError"
              /\ pc = "idle"
              /\ report = None_
              /\ dataset_reports = <<>>
    /\ \A k \in 1..Len(Healths) :
          /\ Healths[k].status \in Status
          /\ \A i \in 1..Len(Healths[k].checks) :
                /\ IsCheckResult(Healths[k].checks[i])
                /\ Healths[k].checks[i].status \in Status

\* evaluate_all has failed on the second dataset, after the first one had been
\* evaluated, on a runner that returned None after another runner had run
C5_Witness ==
    /\ call.kind = "evaluate_all"
    /\ raised = "ValueError"
    /\ Len(invocations) >= 3
    /\ BadReturn(invocations[Len(invocations)])
    /\ invocations[1].dataset # invocations[Len(invocations)].dataset
    /\ invocations[Len(invocations) - 1].dataset = invocations[Len(invocations)].dataset

\* C6: within one evaluate_all run `now` is resolved once and every runner
\* invocation, for every dataset and check, receives that instant; it is the
\* caller's override when one is given, and the report's generated_at.
C6_OneNowPerRun ==
    call.kind = "evaluate_all" =>
        /\ evaluation_time.kind = "datetime"
        /\ \A j \in 1..Len(invocations) : invocations[j].now = evaluation_time
        /\ (call.now.kind # "None" => evaluation_time = call.now)
        /\ (report.kind = "HealthReport" => report.generated_at = evaluation_time)

\* a run without override has returned after the clock moved on, having
\* invoked runners on two datasets
C6_Witness ==
    /\ call.kind = "evaluate_all"
    /\ call.now = None_
    /\ report.kind = "HealthReport"
    /\ Len(report.datasets) = 2
    /\ Len(invocations) >= 2
    /\ clock > evaluation_time.t

ReportDatasets == [i \in 1..Len(report.datasets) |-> report.datasets[i].dataset]

\* C7 as claimed: for any sequence of datasets passed to evaluate_all, in
\* whatever order, the DatasetHealth records of the report are ordered by
\* dataset name ascending.
C7_ReportAlwaysAscending ==
    report.kind = "HealthReport" => IsAscending(Names(ReportDatasets))

\* C7 as amended: the DatasetHealth records of the report are in the order in
\* which the datasets were supplied, one per dataset; they are ordered by
\* dataset name ascending when the supplied sequence is, as it is when the
\* caller passes DatasetRegistry.list().
C7_ReportInSuppliedOrder ==
    report.kind = "HealthReport" =>
        /\ ReportDatasets = call.datasets
        /\ (IsAscending(Names(call.datasets)) => IsAscending(Names(ReportDatasets)))
        /\ (call.datasets = List(datasets) =>
               IsStrictlyAscending(Names(ReportDatasets)))

\* a report on DatasetRegistry.list() of a registry filled in descending order
C7_Witness ==
    /\ report.kind = "HealthReport"
    /\ Len(datasets) = 2
    /\ Rank(datasets[1].name) > Rank(datasets[2].name)
    /\ call.datasets = List(datasets)
    /\ Len(report.datasets) = 2

\* C8: summary() has exactly the keys GREEN, YELLOW, RED and total; each status
\* key counts the datasets of that aggregated status, total is the number of
\* datasets of the report, GREEN + YELLOW + RED = total, and for a report of
\* evaluate_all total is the number of datasets passed in.
C8_Summary ==
    report.kind = "HealthReport" =>
        LET s == summary(report)
        IN  /\ DOMAIN s = {"GREEN", "YELLOW", "RED", "total"}
            /\ \A k \in Status :
                  s[k] = Cardinality({i \in 1..Len(report.datasets) :
                                         report.datasets[i].status = k})
            /\ s["total"] = Len(report.datasets)
            /\ s["GREEN"] + s["YELLOW"] + s["RED"] = s["total"]
            /\ s["total"] = Len(call.datasets)

\* the summary of tests/test_health.py, on datasets that ran two checks each
C8_Witness ==
    /\ report.kind = "HealthReport"
    /\ Len(checks) = 2
    /\ summary(report) = [GREEN |-> 1, YELLOW |-> 0, RED |-> 1, total |-> 2]

\* C9: two evaluate_all runs over the same datasets, the same registered
\* checks and the same fixed now override yield the same outcome: the same
\* generated_at, dataset order, per-dataset status and CheckResults.
C9_Deterministic ==
    (previous # None_ /\ pc = "idle" /\ call.kind = "evaluate_all") =>
        /\ report = previous.report
        /\ raised = previous.raised

\* a second run with the arguments of the first has returned its report, on
\* two datasets and a time-dependent check, after the clock moved on
C9_Witness ==
    /\ previous # None_
    /\ pc = "idle"
    /\ report.kind = "HealthReport"
    /\ Len(report.datasets) = 2
    /\ \E i \in 1..Len(checks) : checks[i].runner = "check_freshness"
    /\ clock > report.generated_at.t

\* a float, or text float() parses
IsNumber(v) == v.kind \in {"number", "numtext", "nan", "inf"}

\* a value that denotes an instant: a datetime, ISO-8601 text, an epoch number
IsTimestamp(v) == v.kind \in {"datetime", "isotext", "number"}

NonPositive(v) == v.kind \in {"number", "numtext"} /\ v.n <= 0

\* the metadata a check requires is missing or malformed: an absent key, an
\* unparseable timestamp, a non-numeric value, a non-positive expected
\* minimum, a non-list schema
MissingOrMalformed(fn, dataset) ==
    LET a == Get(dataset, CheckKeys[fn][1])
        b == Get(dataset, CheckKeys[fn][2])
    IN  CASE fn = "check_freshness" -> ~IsTimestamp(a) \/ ~IsNumber(b)
          [] fn = "check_schema" -> a.kind # "list" \/ b.kind # "list"
          [] OTHER -> ~IsNumber(a) \/ ~IsNumber(b) \/ NonPositive(b)

\* C10: for each built-in check and every dataset whose metadata required by
\* that check is missing or malformed, the check does not raise and returns
\* one CheckResult whose status is YELLOW, never RED and never GREEN.
C10_MalformedIsYellow ==
    (ret # None_ /\ MissingOrMalformed(arg.fn, arg.dataset)) =>
        /\ ret.raise = ""
        /\ IsCheckResult(ret.value)
        /\ ret.value.status = "YELLOW"

\* the two metadata values the applied check reads
ArgA == Get(arg.dataset, CheckKeys[arg.fn][1])
ArgB == Get(arg.dataset, CheckKeys[arg.fn][2])

\* an int, a finite float, or text of one
Finite(v) == v.kind \in {"number", "numtext"}

\* C11: for numeric record_count and numeric expected_min_records > 0,
\* check_completeness returns GREEN iff record_count >= expected, YELLOW iff
\* 0.9 * expected <= record_count < expected, RED iff record_count <
\* 0.9 * expected; the cases are exhaustive and exclusive and the 0.9 boundary
\* is YELLOW.
C11_CompletenessThresholds ==
    (/\ ret # None_
     /\ arg.fn = "check_completeness"
     /\ Finite(ArgA) /\ Finite(ArgB) /\ ArgB.n > 0) =>
        LET rc == ArgA.n
            em == ArgB.n
        IN  /\ ret.raise = ""
            /\ IsCheckResult(ret.value)
            /\ ret.value.status \in Status
            /\ (ret.value.status = "GREEN") <=> (rc >= em)
            /\ (ret.value.status = "YELLOW") <=> (9 * em <= 10 * rc /\ rc < em)
            /\ (ret.value.status = "RED") <=> (10 * rc < 9 * em)
            /\ (10 * rc = 9 * em => ret.value.status = "YELLOW")

\* check_completeness has returned YELLOW for a count of exactly 0.9 of the
\* expected minimum
C11_Witness ==
    /\ ret # None_
    /\ arg.fn = "check_completeness"
    /\ Finite(ArgA) /\ Finite(ArgB) /\ ArgB.n > 0
    /\ 10 * ArgA.n = 9 * ArgB.n
    /\ ret.value.status = "YELLOW"

\* the instant a timestamp value denotes, naive ones taken as UTC
InstantOf(v) ==
    IF v.kind = "isotext" /\ v.tz = "+01:00" THEN v.t - 1
    ELSE IF v.kind = "number" THEN v.n
    ELSE v.t

\* C12 as claimed: when last_updated parses to a timestamp and freshness_hours is numeric,
\* with age = now - last_updated, check_freshness returns GREEN iff age <= SLA,
\* YELLOW iff SLA < age <= 1.5 * SLA, RED iff age > 1.5 * SLA; age = SLA is
\* GREEN and age = 1.5 * SLA is YELLOW.
C12_FreshnessThresholds ==
    (/\ ret # None_
     /\ arg.fn = "check_freshness"
     /\ IsTimestamp(ArgA) /\ Finite(ArgB)) =>
        LET age == arg.now.t - InstantOf(ArgA)
            sla == ArgB.n
        IN  /\ ret.raise = ""
            /\ IsCheckResult(ret.value)
            /\ (ret.value.status = "GREEN") <=> (age <= sla)
            /\ (ret.value.status = "YELLOW") <=> (sla < age /\ 2 * age <= 3 * sla)
            /\ (ret.value.status = "RED") <=> (2 * age > 3 * sla)

\* C12 as amended: GREEN iff age <= SLA, YELLOW iff SLA < age <= 1.5 * SLA, RED
\* iff age exceeds both SLA and 1.5 * SLA, which for an SLA >= 0 is age >
\* 1.5 * SLA; the tests are made in that order, so that with a negative SLA an
\* age between 1.5 * SLA and SLA is GREEN.
C12_FreshnessThresholdsInOrder ==
    (/\ ret # None_
     /\ arg.fn = "check_freshness"
     /\ IsTimestamp(ArgA) /\ Finite(ArgB)) =>
        LET age == arg.now.t - InstantOf(ArgA)
            sla == ArgB.n
        IN  /\ ret.raise = ""
            /\ IsCheckResult(ret.value)
            /\ (ret.value.status = "GREEN") <=> (age <= sla)
            /\ (ret.value.status = "YELLOW") <=> (sla < age /\ 2 * age <= 3 * sla)
            /\ (ret.value.status = "RED") <=> (age > sla /\ 2 * age > 3 * sla)
            /\ (sla >= 0 => ((ret.value.status = "RED") <=> (2 * age > 3 * sla)))

\* check_freshness has returned YELLOW for an age of exactly 1.5 times the SLA,
\* the timestamp given as text with a UTC offset
C12_Witness ==
    /\ ret # None_
    /\ arg.fn = "check_freshness"
    /\ ArgA.kind = "isotext" /\ ArgA.tz = "+01:00"
    /\ Finite(ArgB) /\ ArgB.n > 0
    /\ 2 * (arg.now.t - InstantOf(ArgA)) = 3 * ArgB.n
    /\ ret.value.status = "YELLOW"

\* the set of field names of a list value, each coerced to a string
FieldNames(v) == {PyStr(v.items[i]) : i \in 1..Len(v.items)}

\* C13: for non-empty schema and expected_schema lists, check_schema returns
\* RED whenever some expected field is absent from the actual schema, even if
\* the actual schema has extra fields; YELLOW only when nothing is missing and
\* there are extra fields; details.missing and details.extra are the sorted
\* set differences expected minus actual and actual minus expected.
C13_SchemaMissingBeforeExtra ==
    (/\ ret # None_
     /\ arg.fn = "check_schema"
     /\ ArgA.kind = "list" /\ ArgA.items # <<>>
     /\ ArgB.kind = "list" /\ ArgB.items # <<>>) =>
        LET actual == FieldNames(ArgA)
            expected == FieldNames(ArgB)
        IN  /\ ret.raise = ""
            /\ IsCheckResult(ret.value)
            /\ (expected \ actual # {} => ret.value.status = "RED")
            /\ (ret.value.status = "YELLOW") <=>
                  (expected \ actual = {} /\ actual \ expected # {})
            /\ SeqRange(ret.value.details.missing) = expected \ actual
            /\ SeqRange(ret.value.details.extra) = actual \ expected
            /\ IsStrictlyAscending(ret.value.details.missing)
            /\ IsStrictlyAscending(ret.value.details.extra)

\* check_schema has returned RED for a schema that lacks an expected field and
\* has an extra one
C13_Witness ==
    /\ ret # None_
    /\ arg.fn = "check_schema"
    /\ ret.value.status = "RED"
    /\ ret.value.details.missing # <<>>
    /\ ret.value.details.extra # <<>>

\* what the claim compares of a schema result: status, missing and extra
SchemaVerdict(result) ==
    [status |-> result.status,
     missing |-> IF "missing" \in DOMAIN result.details
                 THEN result.details.missing ELSE <<>>,
     extra |-> IF "extra" \in DOMAIN result.details
               THEN result.details.extra ELSE <<>>]

SchemaLists == {v \in Values : v.kind = "list"}

\* C14: for every dataset that supplies schema and expected_schema as lists,
\* empty lists included, check_schema returns GREEN with empty missing and
\* extra exactly when the set of actual names equals the set of expected
\* names, and reordering or duplicating entries of either list changes neither
\* status nor missing nor extra.
C14_SchemaSetBased ==
    (/\ ret # None_
     /\ arg.fn = "check_schema"
     /\ ArgA.kind = "list" /\ ArgB.kind = "list") =>
        /\ ret.raise = ""
        /\ (SchemaVerdict(ret.value) = [status |-> "GREEN", missing |-> <<>>,
                                        extra |-> <<>>])
              <=> (FieldNames(ArgA) = FieldNames(ArgB))
        /\ \A a2, b2 \in SchemaLists :
              (FieldNames(a2) = FieldNames(ArgA) /\ FieldNames(b2) = FieldNames(ArgB))
                  => SchemaVerdict(check_schema(
                         CheckInput("check_schema", a2, b2, arg.now).dataset,
                         arg.now).value) = SchemaVerdict(ret.value)

\* C15: for every pair of values (actual, expected) the status check_volume
\* returns for bytes = actual, expected_min_bytes = expected equals the status
\* check_completeness returns for record_count = actual, expected_min_records
\* = expected, the missing, invalid and non-positive YELLOW cases included.
C15_VolumeAsCompleteness ==
    (ret # None_ /\ arg.fn = "check_volume") =>
        LET other == check_completeness(
                CheckInput("check_completeness", ArgA, ArgB, arg.now).dataset,
                arg.now)
        IN  /\ ret.raise = ""
            /\ other.raise = ""
            /\ ret.value.status = other.value.status

\* check_volume has returned YELLOW for numbers with a non-positive minimum
C15_Witness ==
    /\ ret # None_
    /\ arg.fn = "check_volume"
    /\ IsNumber(ArgA) /\ NonPositive(ArgB)
    /\ FGe(PyFloat(ArgA).value, PyFloat(ArgB).value)
    /\ ret.value.status = "YELLOW"

IsMapping(v) == v.kind = "dict"

\* the definition has no name: the key is absent or null
NameAbsent(payload) ==
    "name" \notin DOMAIN payload.entries \/ payload.entries["name"] = None_

\* the definition's name is text that is empty once trimmed
NameBlank(payload) ==
    /\ "name" \in DOMAIN payload.entries
    /\ payload.entries["name"].kind = "str"
    /\ Strip(payload.entries["name"].s) = ""

\* C17: a definition that is not a mapping, or whose name is absent or blank
\* after trimming, fails to load; any other yields a Dataset with the trimmed
\* non-empty name, description / location / owner empty when absent, and as
\* metadata exactly the definition restricted to the keys other than name,
\* description, location and owner, values unchanged.
C17_DatasetFromDefinition ==
    ret # None_ =>
        IF ~IsMapping(arg.payload)
           \/ NameAbsent(arg.payload) \/ NameBlank(arg.payload)
        THEN ret.raise # ""
        ELSE LET entries == arg.payload.entries
             IN  /\ ret.raise = ""
                 /\ ret.value.name = Strip(PyStr(entries["name"]))
                 /\ ret.value.name # ""
                 /\ \A k \in {"description", "location", "owner"} :
                       k \notin DOMAIN entries => ret.value[k] = ""
                 /\ DOMAIN ret.value.metadata = DOMAIN entries \ ReservedKeys
                 /\ \A k \in DOMAIN ret.value.metadata :
                       ret.value.metadata[k] = entries[k]

\* the name an entry point's plugin registers under
RegisteredName(entry_point) ==
    IF entry_point.plugin.kind = "CheckSpec" THEN entry_point.plugin.spec.name
    ELSE entry_point.name

\* the positions of the plugins that are to be registered: those that load,
\* are a CheckSpec or callable, and whose name is not taken by a check
\* registered before the call or by an earlier registered plugin
Registered(registry, eps) ==
    LET ok[i \in 1..Len(eps)] ==
            /\ eps[i].plugin.kind \in {"CheckSpec", "callable"}
            /\ RegisteredName(eps[i]) \notin Keys(registry)
            /\ \A j \in 1..(i - 1) :
                  ~(ok[j] /\ RegisteredName(eps[j]) = RegisteredName(eps[i]))
    IN  {i \in 1..Len(eps) : ok[i]}

\* C18: for any sequence of discovered entry points, a plugin that fails to
\* load, is neither callable nor a CheckSpec, or whose name is already
\* registered is skipped and yields exactly one warning; every other plugin is
\* registered; the checks registered before the call are unchanged; and the
\* call returns with count + number of warnings = number of entry points.
C18_PluginLoadingIsolated ==
    (ret # None_ /\ arg.fn = "load_entrypoint_checks"
        /\ arg.entry_points.kind = "selected") =>
        LET eps == arg.entry_points.selected
            good == Registered(arg.registry, eps)
            skipped == (1..Len(eps)) \ good
            nth(k) == CHOOSE i \in skipped :
                          Cardinality({j \in skipped : j <= i}) = k
        IN  /\ ret.raise = ""
            /\ ret.count = Cardinality(good)
            /\ Len(ret.errors) = Cardinality(skipped)
            /\ ret.count + Len(ret.errors) = Len(eps)
            /\ \A k \in 1..Len(ret.errors) :
                  ret.errors[k].entry_point = eps[nth(k)].name
            /\ Len(ret.registry) = Len(arg.registry) + Cardinality(good)
            /\ SubSeq(ret.registry, 1, Len(arg.registry)) = arg.registry
            /\ \A i \in good :
                  /\ RegisteredName(eps[i]) \in Keys(ret.registry)
                  /\ Lookup(ret.registry, RegisteredName(eps[i])).runner =
                        (IF eps[i].plugin.kind = "CheckSpec"
                         THEN eps[i].plugin.spec.runner ELSE eps[i].plugin.runner)

\* three plugins on a registry with a built-in: the first fails to load, the
\* second is registered, the third is skipped for its name
C18_Witness ==
    /\ ret # None_
    /\ arg.fn = "load_entrypoint_checks"
    /\ arg.entry_points.kind = "selected"
    /\ Len(arg.entry_points.selected) = 3
    /\ arg.registry # <<>>
    /\ arg.entry_points.selected[1].plugin.kind = "raise"
    /\ ret.count = 1
    /\ Len(ret.errors) = 2
    /\ ret.errors[2].error = "ValueError"
    /\ Len(ret.registry) = 2

\* C19: every CheckResult run_all returns carries the registered name of the
\* check that produced it: whatever the registry holds and whatever the
\* dataset, the i-th result's name is the name of the i-th spec of list().
C19_ResultCarriesRegisteredName ==
    \A k \in 1..Len(Healths) :
        \A i \in 1..Len(Healths[k].checks) :
            Healths[k].checks[i].name = List(checks)[i].name

\* C20: evaluation is read-only on its inputs: evaluate_all, evaluate_dataset,
\* run_all and the built-in checks leave the registered checks, the dataset
\* registry and every Dataset's fields and metadata unchanged; in a CLI run
\* every registry mutation happens before the first check runs and none after.
C20_EvaluationReadOnly ==
    [][(\/ call.kind = "evaluate_all"
        \/ call'.kind = "evaluate_all"
        \/ call.kind = "main" /\ call.step \in {"output", "return 1", "return"})
          => (checks' = checks /\ datasets' = datasets)]_vars

\* a CLI run has reported on two loaded datasets, one of them with metadata,
\* after the four built-ins and a plugin had run on each
C20_Witness ==
    /\ call.kind = "evaluate_all"
    /\ report.kind = "HealthReport"
    /\ Len(report.datasets) = 2
    /\ Len(checks) = 5
    /\ Len(invocations) = 10
    /\ \E i \in 1..Len(datasets) : DOMAIN datasets[i].metadata # {}

\* the --fail-on threshold as a severity
Threshold == [f \in {"yellow", "red"} |-> IF f = "yellow" THEN 1 ELSE 2]

\* C21: exit codes follow the severity order GREEN=0 < YELLOW=1 < RED=2: once
\* the output step has succeeded, main returns 2 iff --fail-on is yellow or red
\* and the overall status is at or above that threshold, and 0 otherwise; with
\* --fail-on none it never returns 2.
C21_ExitCodeFollowsSeverity ==
    MainAt("return") =>
        LET overall == overall_status(report)
            meets == /\ call.fail_on \in {"yellow", "red"}
                     /\ status_value(overall) >= Threshold[call.fail_on]
        IN  /\ ret.exit = 2 <=> meets
            /\ ret.exit = 0 <=> ~meets
            /\ call.fail_on = "none" => ret.exit # 2
            /\ status_value("GREEN") < status_value("YELLOW")
            /\ status_value("YELLOW") < status_value("RED")

\* a run with --fail-on yellow has written a report whose overall status is
\* RED, on two datasets of which one is GREEN, and has returned 2
C21_Witness ==
    /\ MainAt("return")
    /\ call.fail_on = "yellow"
    /\ overall_status(report) = "RED"
    /\ Len(report.datasets) = 2
    /\ \E i \in 1..2 : report.datasets[i].status = "GREEN"
    /\ ret.written # <<>>
    /\ ret.exit = 2

\* the definitions a file holds, in file order; a payload that is neither a
\* sequence nor a mapping stands as the one, malformed, definition of its file
DefinitionsOf(file) ==
    LET payload == IF Truthy(file.payload) THEN file.payload
                   ELSE Mapping([k \in {} |-> None_])
        items == IF payload.kind = "list" THEN payload.items ELSE <<payload>>
    IN  [i \in 1..Len(items) |-> [payload |-> items[i], source |-> file.name]]

RECURSIVE Flatten(_)
Flatten(seqs) == IF seqs = <<>> THEN <<>> ELSE Head(seqs) \o Flatten(Tail(seqs))

\* the definitions under a path, in sorted file order and then in-file order
DefinitionsIn(path) ==
    CASE path.kind = "dir" ->
            LET files == SortedFiles(path.files)
            IN  Flatten([i \in 1..Len(files) |-> DefinitionsOf(files[i])])
      [] path.kind = "file" -> DefinitionsOf(path.file)
      [] OTHER -> <<>>

Converted(definition) == dataset_from_dict(definition.payload, definition.source)

\* the i-th definition is malformed, has no name, or has the name of a dataset
\* present before the call or of an earlier definition
Fails(before, definitions, i) ==
    \/ Converted(definitions[i]).raise # ""
    \/ Converted(definitions[i]).value.name \in
          Keys(before) \cup {Converted(definitions[j]).value.name :
                                 j \in {j \in 1..(i - 1) : Converted(definitions[j]).raise = ""}}

\* the registry after a load that failed: the datasets present before, then
\* the definitions that precede the first failing one
PartialLoad(before, path) ==
    LET definitions == DefinitionsIn(path)
        failing == {i \in 1..Len(definitions) : Fails(before, definitions, i)}
        first == CHOOSE i \in failing : \A j \in failing : i <= j
    IN  IF failing = {} THEN before
        ELSE before \o [j \in 1..(first - 1) |-> Converted(definitions[j]).value]

LoadFailed(c, r) == c.kind = "main" /\ c.step = "load_from_path" /\ r # ""

ParsedAsStated ==
    LET v == arg.value
        out == ret.parsed
    IN  /\ out.raise = ""
        /\ out.value = None_ \/ (out.value.kind = "datetime" /\ out.value.aware)
        /\ v.kind = "datetime" => out.value = DateTime(v.t, TRUE)
        /\ (v.kind = "isotext" /\ v.tz \in {"naive", "Z", "+00:00"}) =>
              out.value = DateTime(v.t, TRUE)
        /\ (v.kind = "isotext" /\ v.tz = "+01:00") => out.value = DateTime(v.t - 1, TRUE)
        /\ v.kind = "number" => out.value = DateTime(v.n, TRUE)
        /\ v.kind \in {"nan", "inf"} => out.value.kind = "datetime"
        /\ v.kind \in {"None", "text", "numtext", "dict"} => out.value = None_
        /\ (out.value = None_ /\ ret.freshness # None_) =>
              /\ ret.freshness.raise = ""
              /\ ret.freshness.value.status = "YELLOW"
              /\ ret.freshness.value.message =
                    "Missing last_updated or freshness_hours metadata."

\* C23: parse_datetime never returns a timezone-naive timestamp: for every
\* input it returns either None or a timezone-aware instant; a naive datetime
\* or naive ISO-8601 text is interpreted as UTC, a trailing Z is the UTC
\* offset, a Unix epoch number maps to that instant in UTC, and unparseable
\* text or any other type yields None, which check_freshness treats as a
\* missing last_updated.
C23_ParseDatetimeNeverNaive == ret # None_ => ParsedAsStated

\* the same on every input but the floats nan and inf
C23_ParseDatetimeOnFiniteInputs ==
    (ret # None_ /\ arg.value.kind \notin {"nan", "inf"}) => ParsedAsStated

====
